---- MODULE Spec2Model ----
(***************************************************************************)
(* A model of the CUDA backend of KernelCodeGen (src/Backend/CUDA.cc):     *)
(* the process-wide naming state, the naming pass collectVars, the         *)
(* statement emitters and the driver CUDAGen.                              *)
(*                                                                         *)
(* Text is modelled as a sequence of pieces, one piece per string literal  *)
(* or number the code streams: Lit("auto ") or Num(6).  A generated name   *)
(* is the sequence of the pieces it is concatenated from.                  *)
(***************************************************************************)
EXTENDS Integers, Sequences, FiniteSets, TLC

VARIABLES
  module,         \* the mlir::ModuleOp handed to CUDAGen: [nodes, types]
  build,          \* how CUDA.cc was compiled: [ndebug, trap]
  pc,             \* where the generator is
  source,         \* std::stringstream source
  errs,           \* what was written to llvm::errs()
  valueNameMap,   \* std::map<mlir::Value, std::string> valueNameMap
  kernelCounter,  \* int64_t kernelCounter
  varCounter,     \* int64_t varCounter
  kernel,         \* the AffineParallelOp codegen(AffineParallelOp) is working on
  pass,           \* which walk of collectVars is running
  pos,            \* the last operation the running walk visited
  local,          \* collectVars' locals: id and the per-class counters
  outsidesVars,   \* collectVars' std::map<mlir::Value, int> outsidesVars
  outsideVars,    \* collectVars' result, as codegen(AffineParallelOp) holds it
  kernels,        \* what each finished codegen(AffineParallelOp) did
  calls,          \* how many calls of CUDAGen the caller still makes
  ret,            \* what the calls of CUDAGen returned, oldest first
  calc,           \* what Evaluate computed from the generated text
  given           \* the modules the calls of CUDAGen were given, oldest first

vars == <<module, build, pc, source, errs, valueNameMap, kernelCounter,
          varCounter, kernel, pass, pos, local, outsidesVars, outsideVars,
          kernels, calls, ret, calc, given>>

(***************************************************************************)
(* Text                                                                    *)
(***************************************************************************)
Lit(s) == <<"s", s, 0>>

\* std::to_string(n), operator<<(int)
Num(n) == <<"n", "", n>>

\* one level of indent()
IndentUnit == Lit("  ")

RECURSIVE Spaces(_)
Spaces(n) == IF n <= 0 THEN <<>> ELSE <<IndentUnit>> \o Spaces(n - 1)

(***************************************************************************)
(* Integers of the implementation                                          *)
(***************************************************************************)
\* INT_MAX.  The model's own integers end there too, so 32-bit arithmetic is
\* done on the four bytes of a number.
IntMax == 2147483647

\* the bytes of an int, least significant first (two's complement)
Bytes(x) ==
  LET u == IF x >= 0 THEN x ELSE (x + IntMax) + 1
  IN  <<u % 256, (u \div 256) % 256, (u \div 65536) % 256,
        (u \div 16777216) + (IF x < 0 THEN 128 ELSE 0)>>

\* the int of four bytes
FromBytes(r) ==
  (IF r[4] >= 128 THEN r[4] - 256 ELSE r[4]) * 16777216
    + r[3] * 65536 + r[2] * 256 + r[1]

\* the int that a * b is stored as: the product modulo 2^32
MulInt(a, b) ==
  LET x == Bytes(a)
      y == Bytes(b)
      c1 == x[1] * y[1]
      c2 == x[1] * y[2] + x[2] * y[1] + c1 \div 256
      c3 == x[1] * y[3] + x[2] * y[2] + x[3] * y[1] + c2 \div 256
      c4 == x[1] * y[4] + x[2] * y[3] + x[3] * y[2] + x[4] * y[1]
              + c3 \div 256
  IN  FromBytes(<<c1 % 256, c2 % 256, c3 % 256, c4 % 256>>)

\* C++ integer division, truncating toward zero; CDivBy where b > 0
CDivBy(a, b) ==
  IF a % b = 0 \/ a >= 0 THEN a \div b ELSE (a \div b) + 1

CDiv(a, b) ==
  IF b = 0 THEN 0
  ELSE IF b > 0 THEN CDivBy(a, b)
  ELSE IF b = -IntMax - 1 THEN (IF a = b THEN 1 ELSE 0)
  ELSE IF CDivBy(a, -b) = -IntMax - 1 THEN CDivBy(a, -b)
  ELSE -CDivBy(a, -b)

(***************************************************************************)
(* The IR: a module is the pre-order list of its operations, each with the *)
(* index of the operation whose body holds it (0: the module itself) and   *)
(* the index of the last operation it holds (its own, if it holds none).   *)
(***************************************************************************)
N0 == [kind |-> "Other", parent |-> 0, res |-> 0, ivs |-> <<>>, mem |-> 0,
       ops |-> <<>>, args |-> <<>>, exprs |-> <<>>, eqs |-> <<>>,
       attr |-> "", val |-> 0, lb |-> 0, ub |-> 0, step |-> 1,
       dims |-> <<>>, vec |-> <<>>, last |-> 0]

Nodes == module.nodes

\* the operations node.walk visits: node itself and all it holds, in pre-order
Under(k) == k..Nodes[k].last

\* the operations of the body of k, in order
Body(k) == {i \in 1..Len(Nodes) : Nodes[i].parent = k}

\* the next operation of kind `kind` a pre-order walk of k visits after p
NextOp(k, p, kind) ==
  LET S == {i \in Under(k) : i > p /\ Nodes[i].kind = kind}
  IN  IF S = {} THEN 0 ELSE CHOOSE i \in S : \A j \in S : i <= j

ScalarType(e) == [memref |-> FALSE, elem |-> e, shape |-> <<>>, space |-> ""]

\* mlir::Value::getType
TypeOf(v) ==
  IF v \in DOMAIN module.types THEN module.types[v] ELSE ScalarType("f32")

(***************************************************************************)
(* The symbol table                                                        *)
(***************************************************************************)
\* the process state the naming functions read and write
Names == [map |-> valueNameMap, errs |-> errs, var |-> varCounter,
          dead |-> FALSE]

\* a setValueName that binds the new name to a value that has one
setValueNameOverwrites(g, val, name) ==
  IF g.dead THEN g
  ELSE IF val \in DOMAIN g.map
       THEN [g EXCEPT !.errs = Append(@, "value already exists"),
                      !.map = [@ EXCEPT ![val] = name]]
       ELSE [g EXCEPT !.map = @ @@ (val :> name), !.dead = build.trap]

\* setValueName.  On the path that stores the name the function flows off
\* its end without a return statement: build.trap says whether the build
\* traps there or returns an unused garbage value.
setValueName(g, val, name) ==
  IF g.dead THEN g
  ELSE IF val \in DOMAIN g.map
       THEN [g EXCEPT !.errs = Append(@, "value already exists")]
       ELSE [g EXCEPT !.map = @ @@ (val :> name), !.dead = build.trap]

\* a getArgName that does not read varCounter
getArgNameZero(g) == <<Lit("arg"), Num(0)>>

\* getArgName
getArgName(g) == <<Lit("arg"), Num(g.var)>>

\* a getKernelName that does not read kernelCounter
getKernelNameZero(n) == <<Lit("kernel"), Num(0)>>

\* getKernelName
getKernelName(n) == <<Lit("kernel"), Num(n)>>

(***************************************************************************)
(* collectVars: one walk per kind of operation, each in pre-order          *)
(***************************************************************************)
Local0 == [id |-> 0, iterVarCounter |-> 0, applyCounter |-> 0,
           allocCounter |-> 0, vectorLoadCounter |-> 0, regLoadCounter |-> 0,
           constCounter |-> 0, tempCounter |-> 0]

\* what a walk's callback reads and writes
Collect == [g |-> Names, l |-> local, ov |-> outsidesVars]

int3str == <<"x", "y", "z">>

\* a callback that gives x to the first induction variable
RECURSIVE nameIVsForward(_, _, _, _)
nameIVsForward(g, ivs, prefix, i) ==
  IF i >= Len(ivs) THEN g
  ELSE nameIVsForward(setValueName(g, ivs[i + 1],
                                   <<Lit(prefix), Lit(int3str[i + 1])>>),
                      ivs, prefix, i + 1)

\* the callback of the AffineParallelOp walk
RECURSIVE nameIVs(_, _, _, _)
nameIVs(g, ivs, prefix, i) ==
  IF i >= Len(ivs) THEN g
  ELSE nameIVs(setValueName(g, ivs[i + 1],
                            <<Lit(prefix), Lit(int3str[Len(ivs) - i])>>),
               ivs, prefix, i + 1)

visitParallel(c, i) ==
  [c EXCEPT !.g = nameIVs(c.g, Nodes[i].ivs,
                          IF i = kernel THEN "blockIdx." ELSE "threadIdx.", 0)]

\* the callback of the AffineForOp walk
visitFor(c, i) ==
  [c EXCEPT !.g = setValueName(@, Nodes[i].ivs[1],
                               <<Lit("iter"), Num(c.l.iterVarCounter)>>),
            !.l.iterVarCounter = @ + 1]

\* the callback of the AffineApplyOp walk
visitApply(c, i) ==
  [c EXCEPT !.g = setValueName(@, Nodes[i].res,
                               <<Lit("expr"), Num(c.l.applyCounter)>>),
            !.l.applyCounter = @ + 1]

\* a callback of the AllocOp walk that names nothing
visitAllocUnnamed(c, i) == c

\* the callback of the memref::AllocOp walk
visitAlloc(c, i) ==
  [c EXCEPT !.g = setValueName(@, Nodes[i].res,
                               <<Lit("array"), Num(c.l.allocCounter)>>),
            !.l.allocCounter = @ + 1]

\* the test every load and store walk makes on its memref
capture(c, mem) ==
  IF mem \in DOMAIN c.g.map THEN c
  ELSE IF mem \in DOMAIN c.ov THEN c
       ELSE [c EXCEPT !.ov = @ @@ (mem :> c.l.id),
                      !.l.id = @ + 1,
                      !.g = setValueName([@ EXCEPT !.var = @ + 1], mem,
                                         getArgName(c.g))]

\* the callback of the AffineVectorLoadOp walk
visitVectorLoad(c, i) ==
  LET d == capture(c, Nodes[i].mem)
  IN  [d EXCEPT !.g = setValueName(@, Nodes[i].res,
                                   <<Lit("vec"), Num(d.l.vectorLoadCounter)>>),
                !.l.vectorLoadCounter = @ + 1]

\* the callback of the AffineLoadOp walk and of the memref::LoadOp walk
visitLoad(c, i) ==
  LET d == capture(c, Nodes[i].mem)
  IN  [d EXCEPT !.g = setValueName(@, Nodes[i].res,
                                   <<Lit("R"), Num(d.l.regLoadCounter)>>),
                !.l.regLoadCounter = @ + 1]

\* the callback of the AffineStoreOp walk and of the AffineVectorStoreOp walk
visitStore(c, i) == capture(c, Nodes[i].mem)

\* the callback of the three constant walks
visitConstant(c, i) ==
  [c EXCEPT !.g = setValueName(@, Nodes[i].res,
                               <<Lit("const"), Num(c.l.constCounter), Lit("th")>>),
            !.l.constCounter = @ + 1]

\* the callback of the thirteen walks that share tempCounter
visitTemp(c, i) ==
  [c EXCEPT !.g = setValueName(@, Nodes[i].res,
                               <<Lit("temp"), Num(c.l.tempCounter)>>),
            !.l.tempCounter = @ + 1]

\* the walks of collectVars, in the order of the code
PassKinds ==
  <<"Parallel", "For", "Apply", "Alloc", "VectorLoad", "AffineLoad",
    "MemLoad", "AffineStore", "VectorStore", "ConstIndex", "ConstFloat",
    "ConstInt", "MulF", "AddF", "MaxF", "SubF", "DivF", "Exp", "PowF",
    "CmpF", "Tanh", "Sqrt", "Log", "Bitcast", "Shuffle">>

visit(c, i) ==
  LET k == Nodes[i].kind
  IN  CASE k = "Parallel" -> visitParallel(c, i)
        [] k = "For" -> visitFor(c, i)
        [] k = "Apply" -> visitApply(c, i)
        [] k = "Alloc" -> visitAlloc(c, i)
        [] k = "VectorLoad" -> visitVectorLoad(c, i)
        [] k \in {"AffineLoad", "MemLoad"} -> visitLoad(c, i)
        [] k \in {"AffineStore", "VectorStore"} -> visitStore(c, i)
        [] k \in {"ConstIndex", "ConstFloat", "ConstInt"} -> visitConstant(c, i)
        [] OTHER -> visitTemp(c, i)

\* the keys of outsidesVars in the order the map iterates them, without the
\* sort by id
RECURSIVE unsorted(_, _)
unsorted(ov, S) ==
  IF S = {} THEN <<>>
  ELSE LET v == CHOOSE x \in S : \A y \in S : x <= y
       IN  <<v>> \o unsorted(ov, S \ {v})

\* the return value of collectVars: the keys of outsidesVars, sorted by id
RECURSIVE sortById(_, _)
sortById(ov, S) ==
  IF S = {} THEN <<>>
  ELSE LET v == CHOOSE x \in S : \A y \in S : ov[x] <= ov[y]
       IN  <<v>> \o sortById(ov, S \ {v})

(***************************************************************************)
(* Emission.  An emitter yields what it streams to `source` (out), what it *)
(* writes to llvm::errs() (err), whether the process died in it (dead) and *)
(* the operations it emitted a statement or block for (stmts).             *)
(***************************************************************************)
E0 == [out |-> <<>>, err |-> <<>>, dead |-> FALSE, stmts |-> <<>>]

Txt(t) == [E0 EXCEPT !.out = t]

Dead == [E0 EXCEPT !.dead = TRUE]

\* a then b; nothing of b happens once a died
Cat(a, b) ==
  IF a.dead THEN a
  ELSE [out |-> a.out \o b.out, err |-> a.err \o b.err, dead |-> b.dead,
        stmts |-> a.stmts \o b.stmts]

RECURSIVE CatAll(_)
CatAll(es) == IF es = <<>> THEN E0 ELSE Cat(Head(es), CatAll(Tail(es)))

\* getValueName
getValueName(val) ==
  IF val \notin DOMAIN valueNameMap
  THEN [E0 EXCEPT !.out = <<Lit("false")>>, !.err = <<"value not exists">>]
  ELSE Txt(valueNameMap[val])

\* toCStr; its last line builds a std::string from nullptr
toCStr(type) ==
  IF type.memref THEN Dead
  ELSE CASE type.elem = "f16" -> Txt(<<Lit("half_t")>>)
         [] type.elem = "f32" -> Txt(<<Lit("float")>>)
         [] type.elem = "f64" -> Txt(<<Lit("double")>>)
         [] type.elem \in {"int", "index"} -> Txt(<<Lit("int")>>)
         [] OTHER -> Dead

\* indent()
indent(n) == Txt(Spaces(n))

\* varDeclear
RECURSIVE dimSuffix(_)
dimSuffix(shape) ==
  IF shape = <<>> THEN <<>>
  ELSE <<Lit("["), Num(Head(shape)), Lit("]")>> \o dimSuffix(Tail(shape))

varDeclear(var) ==
  LET t == TypeOf(var)
  IN  CatAll(<<IF t.space = "shared" THEN Txt(<<Lit("__shared__ ")>>) ELSE E0,
               toCStr(ScalarType(t.elem)),
               IF t.space = "global"
               THEN Cat(Txt(<<Lit("*"), Lit(" ")>>), getValueName(var))
               ELSE CatAll(<<Txt(<<Lit(" ")>>), getValueName(var),
                             Txt(dimSuffix(t.shape))>>)>>)

\* a rendering of the binary expressions that gives CeilDiv the text of
\* FloorDiv
infixFloor(op, lhs, rhs) ==
  [E0 EXCEPT
     !.out =
       <<Lit("(")>> \o lhs.out
         \o <<Lit(CASE op = "Add" -> " + "
                     [] op = "Mod" -> " % "
                     [] op = "Mul" -> " * "
                     [] OTHER -> " / ")>>
         \o rhs.out \o <<Lit(")")>>,
     !.err = lhs.err \o rhs.err]

\* codegen(mlir::AffineExpr, operands): <<"Dim", position>>, <<"Const", value>>
\* or <<op, lhs, rhs>>
infix(op, lhs, rhs) ==
  [E0 EXCEPT
     !.out =
       CASE op = "Add" ->
            <<Lit("(")>> \o lhs.out \o <<Lit(" + ")>> \o rhs.out \o <<Lit(")")>>
         [] op = "CeilDiv" ->
            <<Lit("((")>> \o lhs.out \o <<Lit(" + ")>> \o rhs.out
              \o <<Lit(" - 1)"), Lit(" / ")>> \o rhs.out \o <<Lit(")")>>
         [] op = "FloorDiv" ->
            <<Lit("(")>> \o lhs.out \o <<Lit(" / ")>> \o rhs.out \o <<Lit(")")>>
         [] op = "Mod" ->
            <<Lit("(")>> \o lhs.out \o <<Lit(" % ")>> \o rhs.out \o <<Lit(")")>>
         [] op = "Mul" ->
            <<Lit("(")>> \o lhs.out \o <<Lit(" * ")>> \o rhs.out \o <<Lit(")")>>,
     !.err = lhs.err \o rhs.err]

RECURSIVE codegenExpr(_, _)
codegenExpr(expr, operands) ==
  CASE expr[1] = "Dim" -> getValueName(operands[expr[2] + 1])
    [] expr[1] = "Const" -> Txt(<<Num(expr[2])>>)
    [] OTHER -> infix(expr[1], codegenExpr(expr[2], operands),
                      codegenExpr(expr[3], operands))

(***************************************************************************)
(* Memory accesses                                                         *)
(***************************************************************************)
\* std::vector<int> strides: strides[0] = 1,
\* strides[i] = strides[i - 1] * shape[size - i], stored as int
\* strides.push_back(strides[i - 1] * dim)
nextStride(s, dim) == Append(s, MulInt(s[Len(s)], dim))

RECURSIVE strides(_, _)
strides(shape, n) ==
  IF n <= 0 THEN <<>>
  ELSE IF n = 1 THEN <<1>>
  ELSE nextStride(strides(shape, n - 1), shape[Len(shape) - n + 2])

\* the loop over exprs of a global access, from its k-th expression on
RECURSIVE flatTerms(_, _, _, _)
flatTerms(exprs, operands, st, k) ==
  IF k > Len(exprs) THEN E0
  ELSE Cat(Cat(codegenExpr(exprs[k], operands),
               Txt(<<Lit(" * "), Num(st[Len(exprs) - k + 1]), Lit(" + ")>>)),
           flatTerms(exprs, operands, st, k + 1))

RECURSIVE arrayTerms(_, _, _)
arrayTerms(exprs, operands, k) ==
  IF k > Len(exprs) THEN E0
  ELSE Cat(CatAll(<<Txt(<<Lit("[")>>), codegenExpr(exprs[k], operands),
                    Txt(<<Lit("]")>>)>>),
           arrayTerms(exprs, operands, k + 1))

\* the subscript of an access to memref mem: flat for a global memref, one
\* bracket per dimension otherwise
subscript(mem, exprs, operands) ==
  LET type == TypeOf(mem)
  IN  IF type.space = "global"
      THEN CatAll(<<Txt(<<Lit("[")>>),
                    flatTerms(exprs, operands,
                              strides(type.shape, Len(type.shape)), 1),
                    Txt(<<Lit("0]")>>)>>)
      ELSE arrayTerms(exprs, operands, 1)

\* builder.getAffineDimExpr(i) for every index of a memref::LoadOp
dimExprs(n) == [i \in 1..n |-> <<"Dim", i - 1>>]

\* getVectorFetchType; vt = <<vector length, element type>>
getVectorFetchType(vt) ==
  LET width == CASE vt[2] = "f16" -> 16
                 [] vt[2] = "f32" -> 32
                 [] vt[2] = "f64" -> 64
                 [] OTHER -> -1
      totalBits == vt[1] * width
      totalFloat == CDiv(totalBits, 32)
  IN  [E0 EXCEPT !.out = <<Lit("float"), Num(totalFloat)>>,
                 !.err = IF width = -1 THEN <<"Vector type error">> ELSE <<>>]

\* codegen(mlir::AffineLoadOp)
codegenAffineLoad(n, ind) ==
  CatAll(<<indent(ind), Txt(<<Lit("auto ")>>), getValueName(n.res),
           Txt(<<Lit(" = ")>>), getValueName(n.mem),
           subscript(n.mem, n.exprs, n.ops), Txt(<<Lit(";\n")>>)>>)

\* codegen(mlir::memref::LoadOp)
codegenMemLoad(n, ind) ==
  CatAll(<<indent(ind), Txt(<<Lit("auto ")>>), getValueName(n.res),
           Txt(<<Lit(" = ")>>), getValueName(n.mem),
           subscript(n.mem, dimExprs(Len(n.ops)), n.ops),
           Txt(<<Lit(";\n")>>)>>)

\* codegen(mlir::AffineStoreOp)
codegenAffineStore(n, ind) ==
  CatAll(<<indent(ind), getValueName(n.mem),
           subscript(n.mem, n.exprs, n.ops), Txt(<<Lit(" = ")>>),
           getValueName(n.args[1]), Txt(<<Lit(";\n")>>)>>)

\* codegen(mlir::AffineVectorLoadOp)
codegenVectorLoad(n, ind) ==
  CatAll(<<indent(ind), Txt(<<Lit("auto ")>>), getValueName(n.res),
           Txt(<<Lit(" = ")>>), Txt(<<Lit("(reinterpret_cast<")>>),
           getVectorFetchType(n.vec), Txt(<<Lit("*>(&(")>>),
           getValueName(n.mem), subscript(n.mem, n.exprs, n.ops),
           Txt(<<Lit("))[0]);\n")>>)>>)

\* codegen(mlir::AffineVectorStoreOp)
codegenVectorStore(n, ind) ==
  CatAll(<<indent(ind), Txt(<<Lit("(reinterpret_cast<")>>),
           getVectorFetchType(n.vec), Txt(<<Lit("*>(&(")>>),
           getValueName(n.mem), subscript(n.mem, n.exprs, n.ops),
           Txt(<<Lit("))[0])")>>), Txt(<<Lit(" = ")>>),
           getValueName(n.args[1]), Txt(<<Lit(";\n")>>)>>)

(***************************************************************************)
(* Statements                                                              *)
(***************************************************************************)
\* the float a ConstantFloatOp streams
Flt(v) == <<"f", "", v>>

\* "auto <result> = <before><lhs><between><rhs><after>"
binary(n, ind, before, between, after) ==
  CatAll(<<indent(ind), Txt(<<Lit("auto ")>>), getValueName(n.res),
           Txt(<<Lit(before)>>), getValueName(n.args[1]),
           Txt(<<Lit(between)>>), getValueName(n.args[2]),
           Txt(<<Lit(after)>>)>>)

\* "auto <result> = <call><operand>);\n"
unary(n, ind, call) ==
  CatAll(<<indent(ind), Txt(<<Lit("auto ")>>), getValueName(n.res),
           Txt(<<Lit(call)>>), getValueName(n.args[1]),
           Txt(<<Lit(");\n")>>)>>)

\* codegen(mlir::arith::CmpFOp)
codegenCmpF(n, ind) ==
  CASE n.attr = "OEQ" -> binary(n, ind, " = ", " == ", ";\n")
    [] n.attr = "OGT" -> binary(n, ind, " = ", " > ", ";\n")
    [] OTHER -> indent(ind)

\* codegen(mlir::gpu::ShuffleOp)
codegenShuffle(n, ind) ==
  CatAll(<<indent(ind), Txt(<<Lit("auto ")>>), getValueName(n.res),
           Txt(<<Lit(" = ")>>),
           CASE n.attr = "DOWN" -> Txt(<<Lit(" __shfl_down_sync(0xffffffff, ")>>)
             [] n.attr = "IDX" -> Txt(<<Lit(" __shfl_sync(0xffffffff, ")>>)
             [] OTHER -> [E0 EXCEPT !.err = <<"Unsupport shfl mode">>],
           getValueName(n.args[1]), Txt(<<Lit(", ")>>),
           getValueName(n.args[2]), Txt(<<Lit(", ")>>),
           getValueName(n.args[3]), Txt(<<Lit(");\n")>>)>>)

\* codegen(mlir::arith::BitcastOp)
codegenBitcast(n, ind) ==
  CatAll(<<indent(ind), Txt(<<Lit("auto ")>>), getValueName(n.res),
           Txt(<<Lit(" = static_cast<")>>), toCStr(TypeOf(n.res)),
           Txt(<<Lit(">(")>>), getValueName(n.args[1]),
           Txt(<<Lit(");\n")>>)>>)

\* the codegen overloads of the operations that hold no body
codegenLeaf(n, ind) ==
  LET k == n.kind
  IN  CASE k = "Alloc" ->
           CatAll(<<indent(ind), varDeclear(n.res), Txt(<<Lit(";\n")>>)>>)
        [] k = "Barrier" ->
           Cat(indent(ind), Txt(<<Lit("__syncthreads();\n")>>))
        [] k = "Shuffle" -> codegenShuffle(n, ind)
        [] k = "Apply" ->
           CatAll(<<indent(ind), Txt(<<Lit("int ")>>), getValueName(n.res),
                    Txt(<<Lit(" = ")>>), codegenExpr(n.exprs[1], n.ops),
                    Txt(<<Lit(";\n")>>)>>)
        [] k = "ConstIndex" ->
           CatAll(<<indent(ind), Txt(<<Lit("constexpr int ")>>),
                    getValueName(n.res),
                    Txt(<<Lit(" = "), Num(n.val), Lit(";\n")>>)>>)
        [] k = "ConstFloat" ->
           CatAll(<<indent(ind), Txt(<<Lit("constexpr ")>>),
                    toCStr(TypeOf(n.res)), Txt(<<Lit(" ")>>),
                    getValueName(n.res),
                    Txt(<<Lit(" = "), Flt(n.val), Lit(";\n")>>)>>)
        [] k = "ConstInt" ->
           CatAll(<<indent(ind), Txt(<<Lit("constexpr ")>>),
                    toCStr(TypeOf(n.res)), Txt(<<Lit(" ")>>),
                    getValueName(n.res),
                    Txt(<<Lit(" = "), Num(n.val), Lit(";\n")>>)>>)
        [] k = "MulF" -> binary(n, ind, " = ", " * ", ";\n")
        [] k = "AddF" -> binary(n, ind, " = ", " + ", ";\n")
        [] k = "MaxF" -> binary(n, ind, " = max(", " , ", ");\n")
        [] k = "SubF" -> binary(n, ind, " = ", " - ", ";\n")
        [] k = "DivF" -> binary(n, ind, " = ", " / ", ";\n")
        [] k = "PowF" -> binary(n, ind, " = powf(", ", ", ");\n")
        [] k = "Tanh" -> unary(n, ind, " = tanhf(")
        [] k = "Sqrt" -> unary(n, ind, " = sqrtf(")
        [] k = "Log" -> unary(n, ind, " = logf(")
        [] k = "Exp" -> unary(n, ind, " = exp(")
        [] k = "Bitcast" -> codegenBitcast(n, ind)
        [] k = "CmpF" -> codegenCmpF(n, ind)
        [] k = "AffineLoad" -> codegenAffineLoad(n, ind)
        [] k = "MemLoad" -> codegenMemLoad(n, ind)
        [] k = "AffineStore" -> codegenAffineStore(n, ind)
        [] k = "VectorLoad" -> codegenVectorLoad(n, ind)
        [] k = "VectorStore" -> codegenVectorStore(n, ind)

\* the kinds each dyn_cast chain has a branch for
ForKinds ==
  {"For", "If", "AffineLoad", "Apply", "MemLoad", "AffineStore", "VectorLoad",
   "VectorStore", "ConstIndex", "ConstFloat", "ConstInt", "MulF", "AddF",
   "PowF", "CmpF", "Tanh", "Sqrt", "Log", "DivF", "Barrier", "Shuffle",
   "Alloc", "MaxF", "SubF", "Exp"}

IfKinds ==
  {"For", "If", "ConstIndex", "ConstFloat", "ConstInt", "VectorLoad",
   "VectorStore", "Barrier", "AffineStore", "AffineLoad", "MemLoad", "MaxF",
   "MulF", "AddF", "SubF", "DivF", "Sqrt", "Exp", "Shuffle"}

KernelKinds ==
  {"Alloc", "ConstIndex", "ConstInt", "AffineStore", "ConstFloat", "Apply",
   "Parallel"}

ThreadKinds ==
  {"ConstIndex", "ConstInt", "Alloc", "Apply", "For", "If", "AffineLoad",
   "MemLoad", "AffineStore", "VectorLoad", "VectorStore", "ConstFloat",
   "MulF", "AddF", "DivF", "SubF", "PowF", "CmpF", "Tanh", "Sqrt", "Log",
   "Bitcast", "Barrier"}

Handled(ctx) ==
  CASE ctx = "for" -> ForKinds
    [] ctx = "if" -> IfKinds
    [] ctx = "kernel" -> KernelKinds
    [] ctx = "thread" -> ThreadKinds

\* the last else of a dyn_cast chain, reached by an operation of kind k that
\* is not an AffineYieldOp: the chains of the loop body and of the nested
\* region print the operation's name first; all of them assert
notYield(ctx, k) ==
  [E0 EXCEPT !.err = IF ctx \in {"for", "thread"} THEN <<k>> ELSE <<>>,
             !.dead = ~build.ndebug]

\* the operations of a body, in order
RECURSIVE inOrder(_)
inOrder(S) ==
  IF S = {} THEN <<>>
  ELSE LET i == CHOOSE x \in S : \A y \in S : x <= y
       IN  <<i>> \o inOrder(S \ {i})

\* the constraints from the k-th on, written last to first
RECURSIVE constraintsReversed(_, _)
constraintsReversed(n, k) ==
  IF k > Len(n.exprs) THEN E0
  ELSE Cat(constraintsReversed(n, k + 1),
           Cat(codegenExpr(n.exprs[k], n.ops),
               Txt(<<Lit(" "), Lit(IF n.eqs[k] THEN "==" ELSE ">="),
                     Lit(" 0 && ")>>)))

\* the condition of codegen(mlir::AffineIfOp), from its k-th constraint on
RECURSIVE constraints(_, _)
constraints(n, k) ==
  IF k > Len(n.exprs) THEN E0
  ELSE Cat(Cat(codegenExpr(n.exprs[k], n.ops),
               Txt(<<Lit(" "), Lit(IF n.eqs[k] THEN "==" ELSE ">="),
                     Lit(" 0 && ")>>)),
           constraints(n, k + 1))

RECURSIVE codegenOps(_, _, _)
RECURSIVE dispatch(_, _, _)

\* codegen(mlir::AffineForOp)
codegenFor(i, ind) ==
  LET n == Nodes[i]
      iter == getValueName(n.ivs[1])
  IN  CatAll(<<[iter EXCEPT !.out = <<>>],
               IF n.attr = "unroll"
               THEN Cat(indent(ind), Txt(<<Lit("#pragma unroll\n")>>))
               ELSE E0,
               indent(ind),
               Txt(<<Lit("for (int ")>> \o iter.out
                    \o <<Lit(" = "), Num(n.lb), Lit("; ")>> \o iter.out
                    \o <<Lit(" < "), Num(n.ub), Lit("; ")>> \o iter.out
                    \o <<Lit(" += "), Num(n.step), Lit(") {\n")>>),
               codegenOps(inOrder(Body(i)), "for", ind + 1),
               indent(ind), Txt(<<Lit("}\n")>>)>>)

\* codegen(mlir::AffineIfOp)
codegenIf(i, ind) ==
  LET n == Nodes[i]
  IN  CatAll(<<indent(ind), Txt(<<Lit("if (")>>), constraints(n, 1),
               Txt(<<Lit(" true) {\n")>>),
               codegenOps(inOrder(Body(i)), "if", ind + 1),
               indent(ind), Txt(<<Lit("}\n")>>)>>)

\* one turn of a loop over the operations of a body: the dyn_cast chain of
\* context ctx applied to operation i
dispatch(i, ctx, ind) ==
  LET k == Nodes[i].kind
  IN  IF k \in Handled(ctx)
      THEN LET e == CASE k = "For" -> codegenFor(i, ind)
                      [] k = "If" -> codegenIf(i, ind)
                      [] k = "Parallel" ->
                         codegenOps(inOrder(Body(i)), "thread", ind)
                      [] OTHER -> codegenLeaf(Nodes[i], ind)
           IN  [e EXCEPT !.stmts = <<i>> \o @]
      ELSE IF k = "Yield" THEN E0
      ELSE notYield(ctx, k)

codegenOps(is, ctx, ind) ==
  IF is = <<>> THEN E0
  ELSE Cat(dispatch(Head(is), ctx, ind), codegenOps(Tail(is), ctx, ind))

(***************************************************************************)
(* codegen(mlir::AffineParallelOp), after collectVars returned             *)
(***************************************************************************)
RECURSIVE dimList(_)
dimList(dims) ==
  IF dims = <<>> THEN <<>>
  ELSE <<Num(Head(dims)), Lit(", ")>> \o dimList(Tail(dims))

\* the operation the walk that sets blockDims visits last
lastParallel(k) ==
  CHOOSE i \in Under(k) :
    /\ Nodes[i].kind = "Parallel"
    /\ \A j \in Under(k) : Nodes[j].kind = "Parallel" => j <= i

RECURSIVE declareRest(_, _)
declareRest(ov, i) ==
  IF i > Len(ov) THEN E0
  ELSE CatAll(<<Txt(<<Lit(", ")>>), varDeclear(ov[i]), declareRest(ov, i + 1)>>)

\* outsideVars[0] of an empty vector: whatever the read yields is declared
garbage == Txt(<<Lit("<indeterminate>")>>)

codegenParallel(k, ov, ub) ==
  CatAll(<<IF ov = <<>> /\ ~build.ndebug THEN Dead ELSE E0,
           Txt(<<Lit("// grid dims:(")>> \o dimList(Nodes[k].dims)
                \o <<Lit(")"), Lit(", block dims:(")>>
                \o dimList(Nodes[lastParallel(k)].dims) \o <<Lit(")\n")>>),
           Txt(<<Lit("__global__ void ")>> \o getKernelName(kernelCounter)
                \o <<Lit("(")>>),
           IF ov = <<>> THEN (IF ub = "crash" THEN Dead ELSE garbage)
           ELSE varDeclear(ov[1]),
           declareRest(ov, 2),
           Txt(<<Lit(") {\n")>>),
           codegenOps(inOrder(Body(k)), "kernel", 1),
           Txt(<<Lit("}\n")>>)>>)

\* a codegen(mlir::ModuleOp) that stops after the first function
nextKernelOfFirstFunc(p) ==
  LET S == {i \in 1..Len(Nodes) :
              /\ i > p
              /\ Nodes[i].kind = "Parallel"
              /\ Nodes[i].parent = 1
              /\ Nodes[1].kind = "Func"}
  IN  IF S = {} THEN 0 ELSE CHOOSE i \in S : \A j \in S : i <= j

\* the kernel codegen(mlir::ModuleOp) and codegen(mlir::func::FuncOp) reach
\* after operation p: the next AffineParallelOp directly in a function body
nextKernel(p) ==
  LET S == {i \in 1..Len(Nodes) :
              /\ i > p
              /\ Nodes[i].kind = "Parallel"
              /\ Nodes[i].parent # 0
              /\ Nodes[Nodes[i].parent].kind = "Func"}
  IN  IF S = {} THEN 0 ELSE CHOOSE i \in S : \A j \in S : i <= j

(***************************************************************************)
(* The generator as a state machine                                        *)
(***************************************************************************)
\* a CUDAGen whose generator keeps the counters and the symbol table of the
\* call before
CUDAGenKeeps ==
  /\ pc = "idle"
  /\ calls > 0
  /\ calls' = calls - 1
  /\ source' = <<Lit("#include \"cuda_runtime.h\"\n")>>
  /\ kernel' = 0
  /\ kernels' = <<>>
  /\ pc' = "func"
  /\ given' = Append(given, module)
  /\ UNCHANGED <<module, build, errs, valueNameMap, kernelCounter, varCounter,
                 pass, pos, local, outsidesVars, outsideVars, ret, calc>>

\* CUDAGen, up to the call of codegen(mlir::ModuleOp): the text buffer is
\* emptied, the include line is written and the constructor of CUDAGenerator
\* resets the counters and the symbol table
CUDAGen ==
  /\ pc = "idle"
  /\ calls > 0
  /\ calls' = calls - 1
  /\ source' = <<Lit("#include \"cuda_runtime.h\"\n")>>
  /\ kernelCounter' = 0
  /\ varCounter' = 0
  /\ valueNameMap' = <<>>
  /\ kernel' = 0
  /\ kernels' = <<>>
  /\ pc' = "func"
  /\ given' = Append(given, module)
  /\ UNCHANGED <<module, build, errs, pass, pos, local, outsidesVars,
                 outsideVars, ret, calc>>

\* codegen(mlir::ModuleOp) and codegen(mlir::func::FuncOp): the next
\* AffineParallelOp of a function body is handed to
\* codegen(mlir::AffineParallelOp), which calls collectVars first
CodegenFunc ==
  /\ pc = "func"
  /\ nextKernel(kernel) # 0
  /\ kernel' = nextKernel(kernel)
  /\ pc' = "collect"
  /\ pass' = 1
  /\ pos' = kernel' - 1
  /\ local' = Local0
  /\ outsidesVars' = <<>>
  /\ outsideVars' = <<>>
  /\ UNCHANGED <<module, build, source, errs, valueNameMap, kernelCounter,
                 varCounter, kernels, calls, ret, calc, given>>

\* the walk that visits operations of kind k (0: none does)
passOf(k) ==
  IF \E p \in 1..Len(PassKinds) : PassKinds[p] = k
  THEN CHOOSE p \in 1..Len(PassKinds) : PassKinds[p] = k
  ELSE 0

\* the first of a set of <<walk, operation>> pairs
firstOf(V) ==
  IF V = {} THEN <<0, 0>>
  ELSE CHOOSE v \in V :
         \A w \in V : v[1] < w[1] \/ (v[1] = w[1] /\ v[2] <= w[2])

\* the callback collectVars runs next: the walk and the operation, <<0, 0>>
\* when the last walk is over
nextVisit ==
  firstOf({v \in {<<passOf(Nodes[i].kind), i>> : i \in Under(kernel)} :
             /\ v[1] # 0
             /\ v[1] > pass \/ (v[1] = pass /\ v[2] > pos)})

\* the callback's effect c on the state
collected(c, p, i) ==
  /\ pos' = i
  /\ pass' = p
  /\ valueNameMap' = c.g.map
  /\ errs' = c.g.errs
  /\ varCounter' = c.g.var
  /\ local' = c.l
  /\ outsidesVars' = c.ov
  /\ pc' = IF c.g.dead THEN "crashed" ELSE pc

\* one callback of walk p of collectVars
Walk(p) ==
  /\ pc = "collect"
  /\ pass <= p
  /\ nextVisit[1] = p
  /\ collected(visit(Collect, nextVisit[2]), p, nextVisit[2])
  /\ UNCHANGED <<module, build, source, kernelCounter, kernel, outsideVars,
                 kernels, calls, ret, calc, given>>

WalkParallel == Walk(1)
WalkFor == Walk(2)
WalkApply == Walk(3)
WalkAlloc == Walk(4)
WalkVectorLoad == Walk(5)
WalkAffineLoad == Walk(6)
WalkMemLoad == Walk(7)
WalkAffineStore == Walk(8)
WalkVectorStore == Walk(9)
WalkConstants == \E p \in 10..12 : Walk(p)
WalkTemps == \E p \in 13..25 : Walk(p)

\* the end of collectVars: the captured values sorted by id
CollectReturn ==
  /\ pc = "collect"
  /\ nextVisit = <<0, 0>>
  /\ outsideVars' = sortById(outsidesVars, DOMAIN outsidesVars)
  /\ pc' = "emit"
  /\ UNCHANGED <<module, build, source, errs, valueNameMap, kernelCounter,
                 varCounter, kernel, pass, pos, local, outsidesVars, kernels,
                 calls, ret, calc, given>>

\* the rest of codegen(mlir::AffineParallelOp): the assertion, the comment,
\* the prototype and the body
emitted(e) ==
  /\ source' = source \o e.out
  /\ errs' = errs \o e.err
  /\ kernelCounter' = IF e.out # <<>> THEN kernelCounter + 1 ELSE kernelCounter
  /\ pc' = IF e.dead THEN "crashed" ELSE "func"
  /\ kernels' =
       IF e.dead THEN kernels
       ELSE Append(kernels,
                   [node |-> kernel, params |-> outsideVars,
                    name |-> getKernelName(kernelCounter),
                    from |-> Len(source) + 1,
                    to |-> Len(source) + Len(e.out),
                    stmts |-> e.stmts])

CodegenParallel ==
  /\ pc = "emit"
  /\ \E ub \in {"crash", "garbage"} :
       emitted(codegenParallel(kernel, outsideVars, ub))
  /\ UNCHANGED <<module, build, valueNameMap, varCounter, kernel, pass, pos,
                 local, outsidesVars, outsideVars, calls, ret, calc, given>>

\* the end of CUDAGen: the text is returned
CUDAGenReturn ==
  /\ pc = "func"
  /\ nextKernel(kernel) = 0
  /\ ret' = Append(ret, source)
  /\ pc' = "idle"
  /\ UNCHANGED <<module, build, source, errs, valueNameMap, kernelCounter,
                 varCounter, kernel, pass, pos, local, outsidesVars,
                 outsideVars, kernels, calls, calc, given>>

Next ==
  \/ CUDAGen
  \/ CodegenFunc
  \/ WalkParallel
  \/ WalkFor
  \/ WalkApply
  \/ WalkAlloc
  \/ WalkVectorLoad
  \/ WalkAffineLoad
  \/ WalkMemLoad
  \/ WalkAffineStore
  \/ WalkVectorStore
  \/ WalkConstants
  \/ WalkTemps
  \/ CollectReturn
  \/ CodegenParallel
  \/ CUDAGenReturn

(***************************************************************************)
(* Input modules                                                           *)
(***************************************************************************)
Leaf(n) == [n |-> n, body |-> <<>>]

Box(n, body) == [n |-> n, body |-> body]

\* the pre-order list of the operations of tree t, placed at index `at`
\* inside the body of operation `parent`
RECURSIVE flat(_, _, _)
RECURSIVE flatAll(_, _, _)
placed(n, parent, at, inside) ==
  <<[n EXCEPT !.parent = parent, !.last = at + Len(inside)]>> \o inside

flat(t, parent, at) == placed(t.n, parent, at, flatAll(t.body, at, at + 1))

followedBy(h, ts, parent, at) == h \o flatAll(ts, parent, at + Len(h))

flatAll(ts, parent, at) ==
  IF ts = <<>> THEN <<>>
  ELSE followedBy(flat(Head(ts), parent, at), Tail(ts), parent, at)

Yield == Leaf([N0 EXCEPT !.kind = "Yield"])

MemRefType(elem, shape, space) ==
  [memref |-> TRUE, elem |-> elem, shape |-> shape, space |-> space]

\* Values.  1..3 are memrefs in global memory defined outside every kernel
\* (function arguments), FC is the result of a constant at function level;
\* kernel k owns the values 100 * k + 1 ..
M1 == 1
M2 == 2
M3 == 3
FC == 9

Base(k) == 100 * k

\* the induction variables of kernel k and of its thread region, and the
\* result of the constant in the body of kernel k
Bid(k) == Base(k) + 1
Tid(k) == Base(k) + 2
KC(k) == Base(k) + 3

GlobalTypes ==
  [v \in {M1, M2, M3} |-> MemRefType("f32", <<8>>, "global")]

Loads == {"VectorLoad", "AffineLoad", "MemLoad"}
Stores == {"AffineStore", "VectorStore"}

\* a load from, or a store to, memref m at index <<i>>; a store stores v
accessAt(kind, r, m, is, v) ==
  Leaf([N0 EXCEPT !.kind = kind,
                  !.res = IF kind \in Loads THEN r ELSE 0,
                  !.mem = m,
                  !.ops = is,
                  !.exprs = IF kind = "MemLoad" THEN <<>>
                            ELSE [p \in 1..Len(is) |-> <<"Dim", p - 1>>],
                  !.args = IF kind \in Stores THEN <<v>> ELSE <<>>,
                  !.vec = IF kind \in {"VectorLoad", "VectorStore"}
                          THEN <<4, "f32">> ELSE <<>>])

access(kind, r, m, i, v) == accessAt(kind, r, m, <<i>>, v)

scalar(kind, r, args, attr) ==
  Leaf([N0 EXCEPT !.kind = kind, !.res = r, !.args = args, !.attr = attr])

forRange(iv, lb, ub, body) ==
  Box([N0 EXCEPT !.kind = "For", !.ivs = <<iv>>, !.lb = lb, !.ub = ub],
      body \o <<Yield>>)

forLoop(iv, body) == forRange(iv, 0, 4, body)

ifRegion(exprs, eqs, ops, body) ==
  Box([N0 EXCEPT !.kind = "If", !.exprs = exprs, !.eqs = eqs, !.ops = ops],
      body \o <<Yield>>)

\* kernel k: an outer region of one block holding a constant and a thread
\* region of 8 threads, with `outer` before the thread region and `inner` in it
kernelOp(k, outer, inner) ==
  Box([N0 EXCEPT !.kind = "Parallel", !.ivs = <<Bid(k)>>, !.dims = <<1>>],
      <<Leaf([N0 EXCEPT !.kind = "ConstFloat", !.res = KC(k), !.val = 1])>>
        \o outer
        \o <<Box([N0 EXCEPT !.kind = "Parallel", !.ivs = <<Tid(k)>>,
                            !.dims = <<8>>],
                 inner \o <<Yield>>),
             Yield>>)

\* a module of one function: a constant, the kernels, the return
moduleOf(ks, types) ==
  [nodes |-> flat(Box([N0 EXCEPT !.kind = "Func"],
                      <<Leaf([N0 EXCEPT !.kind = "ConstFloat", !.res = FC])>>
                        \o ks \o <<Leaf(N0)>>),
                  0, 1),
   types |-> types]

\* a statement of a thread region: its operations and the types of the
\* memrefs they define.  r is the first of the ten values the statement owns.
Stmt(ops, types) == [ops |-> ops, types |-> types]

\* the statements about naming and capture, for slot r of kernel k
NamingStmts(k, r) ==
  {Stmt(<<access(kind, r, m, Tid(k), KC(k))>>, <<>>) :
     kind \in Loads \cup Stores, m \in {M1, M2}}
  \cup
  {\* a shared array allocated in the kernel, and a load from it
   Stmt(<<Leaf([N0 EXCEPT !.kind = "Alloc", !.res = r]),
          access("AffineLoad", r + 1, r, Tid(k), 0)>>,
        r :> MemRefType("f32", <<8>>, "shared")),
   \* a memref cast in the kernel, and a vector load from the cast
   Stmt(<<scalar("Bitcast", r, <<M1>>, ""),
          access("VectorLoad", r + 1, r, Tid(k), 0)>>,
        r :> MemRefType("f32", <<8>>, "global")),
   \* a loop around a load
   Stmt(<<forLoop(r, <<access("AffineLoad", r + 1, M2, r, 0)>>)>>, <<>>)}

\* the statements about failures, each after a load that gives the kernel a
\* parameter
FailingStmts(k, r) ==
  LET load == access("AffineLoad", r + 5, M1, Tid(k), 0)
  IN  {\* operands defined at function level: no walk names them
       Stmt(<<load, scalar("MulF", r, <<FC, FC>>, "")>>, <<>>),
       \* kinds the chain of the thread region, of a loop body, of an if
       \* body has no branch for
       Stmt(<<load, scalar("Exp", r, <<r + 5>>, "")>>, <<>>),
       Stmt(<<load,
              forLoop(r, <<scalar("Bitcast", r + 1, <<r + 5>>, "")>>)>>,
            <<>>),
       Stmt(<<load,
              ifRegion(<<>>, <<>>, <<>>,
                       <<scalar("PowF", r, <<r + 5, r + 5>>, "")>>)>>,
            <<>>),
       \* an operation of no kind the generator knows
       Stmt(<<load, Leaf(N0)>>, <<>>)}

\* the sequences of at most n statements of kernel k about naming or about
\* failures, slot by slot
RECURSIVE Bodies(_, _, _)
Bodies(about, k, n) ==
  IF n = 0 THEN {<<>>}
  ELSE LET shorter == Bodies(about, k, n - 1)
       IN  shorter \cup
           {Append(b, s) : b \in {x \in shorter : Len(x) = n - 1},
                           s \in IF about = "naming"
                                 THEN NamingStmts(k, Base(k) + 10 * n)
                                 ELSE FailingStmts(k, Base(k) + 10 * n)}

RECURSIVE opsOf(_)
opsOf(b) == IF b = <<>> THEN <<>> ELSE Head(b).ops \o opsOf(Tail(b))

RECURSIVE typesOf(_)
typesOf(b) == IF b = <<>> THEN <<>> ELSE Head(b).types @@ typesOf(Tail(b))

\* the longest thread region of the first kernel
MaxBody == 2

\* the thread regions of a second kernel
SecondBodies ==
  {<<>>,
   <<Stmt(<<access("VectorLoad", 210, M2, Tid(2), 0)>>, <<>>),
     Stmt(<<access("AffineLoad", 220, M1, Tid(2), 0)>>, <<>>)>>,
   <<Stmt(<<access("MemLoad", 210, M1, Tid(2), 0)>>, <<>>),
     Stmt(<<access("AffineStore", 220, M3, Tid(2), 210)>>, <<>>)>>}

constant(kind, r, v) == Leaf([N0 EXCEPT !.kind = kind, !.res = r, !.val = v])

\* a kernel with an operation of every kind the generator names or emits
Everything ==
  moduleOf(
    <<kernelOp(1,
        <<Leaf([N0 EXCEPT !.kind = "Alloc", !.res = 110]),
          Leaf([N0 EXCEPT !.kind = "Apply", !.res = 111, !.ops = <<Bid(1)>>,
                          !.exprs = <<<<"Add", <<"Dim", 0>>, <<"Const", 1>>>>>>])>>,
        <<constant("ConstIndex", 112, 2),
          constant("ConstInt", 113, 3),
          access("VectorLoad", 114, M1, Tid(1), 0),
          access("AffineLoad", 115, M2, Tid(1), 0),
          access("MemLoad", 116, 110, Tid(1), 0),
          scalar("MulF", 117, <<115, 116>>, ""),
          scalar("AddF", 118, <<117, 115>>, ""),
          scalar("DivF", 119, <<118, 115>>, ""),
          scalar("SubF", 120, <<119, 115>>, ""),
          scalar("PowF", 121, <<120, 115>>, ""),
          scalar("CmpF", 122, <<121, 115>>, "OGT"),
          scalar("Tanh", 123, <<121>>, ""),
          scalar("Sqrt", 124, <<123>>, ""),
          scalar("Log", 125, <<124>>, ""),
          scalar("Bitcast", 126, <<125>>, ""),
          forLoop(127,
                  <<scalar("MaxF", 128, <<115, 116>>, ""),
                    scalar("Exp", 129, <<128>>, ""),
                    scalar("Shuffle", 130, <<129, 112, 113>>, "DOWN"),
                    access("AffineStore", 0, M3, 127, 130)>>),
          ifRegion(<<<<"Add", <<"Dim", 0>>, <<"Const", -2>>>>, <<"Dim", 1>>>>,
                   <<TRUE, FALSE>>, <<Tid(1), Bid(1)>>,
                   <<access("VectorStore", 0, M3, Tid(1), 114),
                     scalar("Barrier", 0, <<>>, "")>>),
          scalar("Barrier", 0, <<>>, "")>>)>>,
    (110 :> MemRefType("f32", <<8>>, "shared"))
      @@ (113 :> ScalarType("int")) @@ GlobalTypes)

\* a kernel with two thread regions, one after the other
TwoRegions ==
  moduleOf(
    <<kernelOp(1,
        <<Box([N0 EXCEPT !.kind = "Parallel", !.ivs = <<104>>, !.dims = <<4>>],
              <<access("AffineLoad", 105, M1, 104, 0), Yield>>)>>,
        <<access("AffineLoad", 110, M2, Tid(1), 0)>>)>>,
    GlobalTypes)

\* a module of two functions: two kernels in the first, between them a loop
\* that holds a parallel region, and one kernel in the second
TwoFunctions ==
  [nodes |->
     flatAll(<<Box([N0 EXCEPT !.kind = "Func"],
                   <<kernelOp(1, <<>>,
                              <<access("AffineLoad", 110, M1, Tid(1), 0)>>),
                     forLoop(4,
                             <<Box([N0 EXCEPT !.kind = "Parallel",
                                              !.ivs = <<5>>, !.dims = <<2>>],
                                   <<Yield>>)>>),
                     kernelOp(2, <<>>,
                              <<access("AffineLoad", 210, M2, Tid(2), 0)>>),
                     Leaf(N0)>>),
               Box([N0 EXCEPT !.kind = "Func"],
                   <<kernelOp(3, <<>>,
                              <<access("AffineStore", 0, M3, Tid(3), KC(3))>>),
                     Leaf(N0)>>)>>,
             0, 1),
   types |-> GlobalTypes]

\* a memref cast in the kernel, a vector load from the cast, and a shuffle
\* of the loaded value in a loop
CastThenShuffle ==
  moduleOf(
    <<kernelOp(1, <<>>,
        <<scalar("Bitcast", 110, <<M1>>, ""),
          access("VectorLoad", 111, 110, Tid(1), 0),
          constant("ConstInt", 112, 1),
          forLoop(113, <<scalar("Shuffle", 114, <<111, 112, 112>>, "DOWN")>>)>>)>>,
    (110 :> MemRefType("f32", <<8>>, "global")) @@ GlobalTypes)

Modules ==
  {moduleOf(<<kernelOp(1, <<>>, opsOf(b))>>, typesOf(b) @@ GlobalTypes) :
     b \in Bodies("naming", 1, MaxBody) \cup Bodies("failures", 1, MaxBody)}
  \cup
  {moduleOf(<<kernelOp(1, <<>>, opsOf(b)), kernelOp(2, <<>>, opsOf(c))>>,
            typesOf(b) @@ GlobalTypes) :
     b \in Bodies("naming", 1, MaxBody - 1), c \in SecondBodies}
  \cup {Everything, TwoRegions, TwoFunctions, CastThenShuffle}

Builds == [ndebug : BOOLEAN, trap : BOOLEAN]

InitWith(ms, n) ==
  /\ module \in ms
  /\ build \in Builds
  /\ pc = "idle"
  /\ source = <<>>
  /\ errs = <<>>
  /\ valueNameMap = <<>>
  /\ kernelCounter = 0
  /\ varCounter = 0
  /\ kernel = 0
  /\ pass = 0
  /\ pos = 0
  /\ local = Local0
  /\ outsidesVars = <<>>
  /\ outsideVars = <<>>
  /\ kernels = <<>>
  /\ calls = n
  /\ ret = <<>>
  /\ calc = <<>>
  /\ given = <<>>

Init == InitWith(Modules, 1)

Spec == Init /\ [][Next]_vars

(***************************************************************************)
(* The accesses to memrefs of every shape                                  *)
(***************************************************************************)
\* the longest shape, and the sizes of a dimension
MaxRank == 3
Big == 65536
Dims == {2, 3, 4, Big}

RECURSIVE Shapes(_)
Shapes(n) ==
  IF n = 0 THEN {<<>>}
  ELSE LET shorter == Shapes(n - 1)
       IN  shorter \cup
           {Append(sh, d) : sh \in {x \in shorter : Len(x) = n - 1}, d \in Dims}

\* one access of each form to M1 of each shape, in a loop of the thread
\* region; its indices are the block, the thread and the loop variable
StrideModules ==
  {moduleOf(
     <<kernelOp(1, <<>>,
         <<forLoop(110,
             <<accessAt(kind, 120, M1,
                        [p \in 1..Len(shape) |->
                           <<Bid(1), Tid(1), 110>>[((p - 1) % 3) + 1]],
                        KC(1))>>)>>)>>,
     (M1 :> MemRefType("f32", shape, "global")) @@ GlobalTypes) :
     kind \in Loads \cup Stores, shape \in Shapes(MaxRank)}

InitStride == InitWith(StrideModules \cup {Everything}, 1)

SpecStride == InitStride /\ [][Next]_vars

(***************************************************************************)
(* The nested regions of every integer set                                 *)
(***************************************************************************)
\* the longest list of constraints
MaxConstraints == 2

\* the constraints: i - 2, i, j over the operands (i, j), each as an equality
\* or an inequality
Constraints ==
  {<<e, eq>> : e \in {<<"Add", <<"Dim", 0>>, <<"Const", -2>>>>,
                      <<"Dim", 0>>, <<"Dim", 1>>},
               eq \in BOOLEAN}

RECURSIVE ConstraintLists(_)
ConstraintLists(n) ==
  IF n = 0 THEN {<<>>}
  ELSE LET shorter == ConstraintLists(n - 1)
       IN  shorter \cup
           {Append(cs, c) : cs \in {x \in shorter : Len(x) = n - 1},
                            c \in Constraints}

\* a load and a nested region over the thread and the block in the thread
\* region; an integer set has a constraint at least
IfModules ==
  {moduleOf(
     <<kernelOp(1, <<>>,
         <<access("AffineLoad", 110, M1, Tid(1), 0),
           ifRegion([p \in 1..Len(cs) |-> cs[p][1]],
                    [p \in 1..Len(cs) |-> cs[p][2]],
                    <<Tid(1), Bid(1)>>,
                    <<scalar("Barrier", 0, <<>>, "")>>)>>)>>,
     GlobalTypes) :
     cs \in ConstraintLists(MaxConstraints) \ {<<>>}}

InitIf == InitWith(IfModules \cup {Everything}, 1)

SpecIf == InitIf /\ [][Next]_vars

(***************************************************************************)
(* Properties                                                              *)
(***************************************************************************)
Range(q) == {q[i] : i \in 1..Len(q)}

\* the memrefs the loads and stores of kernel k use, and those it allocates
memrefsOf(k) ==
  {Nodes[i].mem : i \in {j \in Under(k) : Nodes[j].kind \in Loads \cup Stores}}

allocatedIn(k) ==
  {Nodes[i].res : i \in {j \in Under(k) : Nodes[j].kind = "Alloc"}}

\* C1: every memref a load or store of a generated kernel uses, unless an
\* Alloc of that kernel produced it, is a formal parameter of that kernel,
\* also when an earlier kernel of the run captured the same memref
C1_EveryMemrefIsParameter ==
  \A j \in 1..Len(kernels) :
    memrefsOf(kernels[j].node) \ allocatedIn(kernels[j].node)
      \subseteq Range(kernels[j].params)

\* a define met a value that already had a name
Collided == "value already exists" \in Range(errs)

\* C2: a define on a value that already has a name aborts the generation
\* call: from then on nothing more is emitted and no text is returned
C2_CollisionAborts ==
  [][Collided => source' = source /\ ret' = ret]_vars

\* C3: during a run of CUDAGen a name, once bound to a value, stays bound to
\* it unchanged, whatever defines follow
C3_NameNeverOverwritten ==
  [][pc # "idle" =>
       \A v \in DOMAIN valueNameMap :
         v \in DOMAIN valueNameMap' /\ valueNameMap'[v] = valueNameMap[v]]_vars

\* a second define was tried on a named value, and the run went on
C3_Witness == Collided /\ pc = "collect"

\* C4: a lookup of a value that was never named writes no sentinel into the
\* generated text
C4_NoSentinelInText == Lit("false") \notin Range(source)

\* C5: a call of CUDAGen in which an error condition was reported returns
\* no text
C5_NoTextAfterError == ret # <<>> => errs = <<>>

\* the context in which the body of operation p is walked
contextOf(k, p) ==
  CASE p = k -> "kernel"
    [] Nodes[p].kind = "Parallel" -> "thread"
    [] Nodes[p].kind = "For" -> "for"
    [] OTHER -> "if"

\* the operations the walk of finished kernel r met for which the chain of
\* their context has no branch
unsupportedMet(r) ==
  {i \in Under(r.node) \ {r.node} :
     /\ Nodes[i].parent \in {r.node} \cup Range(r.stmts)
     /\ Nodes[i].kind \notin
          Handled(contextOf(r.node, Nodes[i].parent)) \cup {"Yield"}}

\* C6: no kernel is generated to its end past an operation whose kind has
\* no emission rule in its context
C6_UnsupportedKindFails ==
  \A j \in 1..Len(kernels) : unsupportedMet(kernels[j]) = {}

\* the memrefs of the operations of kernel k of the kinds K, in pre-order,
\* from operation i on
RECURSIVE scan(_, _, _)
scan(k, K, i) ==
  IF i > Nodes[k].last THEN <<>>
  ELSE (IF Nodes[i].kind \in K THEN <<Nodes[i].mem>> ELSE <<>>)
         \o scan(k, K, i + 1)

\* q without the elements outside S and without repetitions
RECURSIVE firsts(_, _)
firsts(q, S) ==
  IF q = <<>> THEN <<>>
  ELSE IF Head(q) \in S
       THEN <<Head(q)>> \o firsts(Tail(q), S \ {Head(q)})
       ELSE firsts(Tail(q), S)

\* C9 as claimed: the parameters are the captured memrefs, once each, in the
\* order of their first encounter in three scans: the vector loads, then
\* the scalar loads, then the stores
C9_ThreeScans ==
  \A j \in 1..Len(kernels) :
    LET k == kernels[j].node
    IN  kernels[j].params =
          firsts(scan(k, {"VectorLoad"}, k)
                   \o scan(k, {"AffineLoad", "MemLoad"}, k)
                   \o scan(k, {"AffineStore", "VectorStore"}, k),
                 Range(kernels[j].params))

\* C9 as amended: the order is that of the first encounter in five scans:
\* vector loads, affine loads, plain loads, affine stores, vector stores
C9_FiveScans ==
  \A j \in 1..Len(kernels) :
    LET k == kernels[j].node
    IN  kernels[j].params =
          firsts(scan(k, {"VectorLoad"}, k) \o scan(k, {"AffineLoad"}, k)
                   \o scan(k, {"MemLoad"}, k) \o scan(k, {"AffineStore"}, k)
                   \o scan(k, {"VectorStore"}, k),
                 Range(kernels[j].params))

\* a kernel whose body has a scalar load from M2 before a vector load from
\* M1 got M1 as its first parameter and M2 as its second
C9_Witness ==
  \E j \in 1..Len(kernels) :
    /\ kernels[j].params = <<M1, M2>>
    /\ \E a, b \in Under(kernels[j].node) :
         /\ a < b
         /\ Nodes[a].kind \in {"AffineLoad", "MemLoad"} /\ Nodes[a].mem = M2
         /\ Nodes[b].kind = "VectorLoad" /\ Nodes[b].mem = M1

\* the natural number n in base 256, least significant digit first
RECURSIVE digits(_)
digits(n) == IF n = 0 THEN <<>> ELSE <<n % 256>> \o digits(n \div 256)

\* the digits of the product of the number of digits q, the carry c and d
RECURSIVE times(_, _, _)
times(q, d, c) ==
  IF q = <<>> THEN digits(c)
  ELSE <<(Head(q) * d + c) % 256>>
         \o times(Tail(q), d, (Head(q) * d + c) \div 256)

\* the digits of the product of the dimensions k + 1 .. of a shape
RECURSIVE product(_, _)
product(shape, k) ==
  IF k >= Len(shape) THEN digits(1)
  ELSE times(product(shape, k + 1), shape[k + 1], 0)

\* the row-major strides of the accesses to global memrefs among the
\* operations is, one per index of each access, in the order of emission
RECURSIVE rowMajor(_)
rowMajor(is) ==
  IF is = <<>> THEN <<>>
  ELSE LET n == Nodes[Head(is)]
       IN  (IF n.kind \in Loads \cup Stores /\ TypeOf(n.mem).space = "global"
            THEN [k \in 1..Len(TypeOf(n.mem).shape) |->
                    product(TypeOf(n.mem).shape, k)]
            ELSE <<>>) \o rowMajor(Tail(is))

\* the numbers a text multiplies the indices of its flat subscripts by
RECURSIVE multipliers(_, _)
multipliers(text, i) ==
  IF i + 2 > Len(text) THEN <<>>
  ELSE (IF text[i] = Lit(" * ") /\ text[i + 1][1] = "n"
           /\ text[i + 2] = Lit(" + ")
        THEN <<text[i + 1][3]>> ELSE <<>>) \o multipliers(text, i + 1)

sameStrides(em, ex) ==
  /\ Len(em) = Len(ex)
  /\ \A i \in 1..Len(em) : em[i] >= 0 /\ digits(em[i]) = ex[i]

\* C7: every access of a generated kernel to a global memref, of each of
\* the five forms, multiplies its k-th index by the product of the
\* dimensions after the k-th: the row-major stride
C7_RowMajorStrides ==
  \A j \in 1..Len(kernels) :
    sameStrides(multipliers(SubSeq(source, kernels[j].from, kernels[j].to), 1),
                rowMajor(kernels[j].stmts))

(***************************************************************************)
(* The lexemes of the generated text                                       *)
(***************************************************************************)
\* what a string the generator writes holds: its lexemes, and whether it
\* starts, and ends, inside a word
Lexemes(str) ==
  CASE str = " " -> [atoms |-> <<>>, left |-> FALSE, right |-> FALSE]
    [] str = "if (" ->
       [atoms |-> <<Lit("if"), Lit("(")>>, left |-> TRUE, right |-> FALSE]
    [] str = " 0 && " ->
       [atoms |-> <<Num(0), Lit("&&")>>, left |-> FALSE, right |-> FALSE]
    [] str = " true) {\n" ->
       [atoms |-> <<Lit("true"), Lit(")"), Lit("{")>>,
        left |-> FALSE, right |-> FALSE]
    [] str = "((" ->
       [atoms |-> <<Lit("("), Lit("(")>>, left |-> FALSE, right |-> FALSE]
    [] str = " - 1)" ->
       [atoms |-> <<Lit("-"), Num(1), Lit(")")>>,
        left |-> FALSE, right |-> FALSE]
    [] str \in {"(", ")", "==", ">="} ->
       [atoms |-> <<Lit(str)>>, left |-> FALSE, right |-> FALSE]
    [] str = " + " -> [atoms |-> <<Lit("+")>>, left |-> FALSE, right |-> FALSE]
    [] str = " / " -> [atoms |-> <<Lit("/")>>, left |-> FALSE, right |-> FALSE]
    [] str = " % " -> [atoms |-> <<Lit("%")>>, left |-> FALSE, right |-> FALSE]
    [] str = " * " -> [atoms |-> <<Lit("*")>>, left |-> FALSE, right |-> FALSE]
    [] str = " = " -> [atoms |-> <<Lit("=")>>, left |-> FALSE, right |-> FALSE]
    [] str = ";\n" -> [atoms |-> <<Lit(";")>>, left |-> FALSE, right |-> FALSE]
    [] str = "int " -> [atoms |-> <<Lit("int")>>, left |-> TRUE, right |-> FALSE]
    [] OTHER -> [atoms |-> <<Lit(str)>>, left |-> TRUE, right |-> TRUE]

\* the atoms of a piece of text: a number is part of a word; a blank string
\* is an atom that ends a word
atomsOf(piece) ==
  IF piece[1] # "s"
  THEN <<[p |-> piece, gl |-> TRUE, gr |-> TRUE, blank |-> FALSE]>>
  ELSE IF Lexemes(piece[2]).atoms = <<>>
       THEN <<[p |-> piece, gl |-> FALSE, gr |-> FALSE, blank |-> TRUE]>>
       ELSE [i \in 1..Len(Lexemes(piece[2]).atoms) |->
               [p |-> Lexemes(piece[2]).atoms[i],
                gl |-> i = 1 /\ Lexemes(piece[2]).left,
                gr |-> i = Len(Lexemes(piece[2]).atoms)
                         /\ Lexemes(piece[2]).right,
                blank |-> FALSE]]

RECURSIVE atomsFrom(_, _)
atomsFrom(text, i) ==
  IF i > Len(text) THEN <<>>
  ELSE atomsOf(text[i]) \o atomsFrom(text, i + 1)

\* atom k of A starts a lexeme
starts(A, k) ==
  ~A[k].blank /\ (k = 1 \/ ~A[k].gl \/ ~A[k - 1].gr)

\* the atoms of the lexeme that starts at atom k
lexemeAt(A, k) ==
  LET ends == {e \in k..Len(A) :
                 /\ \A x \in (k + 1)..e : ~A[x].blank /\ ~starts(A, x)
                 /\ e = Len(A) \/ A[e + 1].blank \/ starts(A, e + 1)}
  IN  [i \in 1..(CHOOSE e \in ends : TRUE) - k + 1 |-> A[k + i - 1].p]

\* the j-th of the atoms that start a lexeme
nthStart(A, j) ==
  CHOOSE k \in 1..Len(A) :
    starts(A, k) /\ Cardinality({x \in 1..k : starts(A, x)}) = j

\* the lexemes of the atoms A; a lexeme is the sequence of the pieces that
\* make it
lexemesOf(A) ==
  [j \in 1..Cardinality({k \in 1..Len(A) : starts(A, k)}) |->
     lexemeAt(A, nthStart(A, j))]

lexemes(text) == lexemesOf(atomsFrom(text, 1))

Tok(str) == <<Lit(str)>>

\* the lexemes of an affine expression over operands, as the specification
\* renders it: a name, a decimal literal, or a parenthesised infix
RECURSIVE rendering(_, _)
rendering(expr, operands) ==
  CASE expr[1] = "Dim" -> <<valueNameMap[operands[expr[2] + 1]]>>
    [] expr[1] = "Const" -> <<<<Num(expr[2])>>>>
    [] expr[1] = "CeilDiv" ->
       <<Tok("("), Tok("(")>> \o rendering(expr[2], operands) \o <<Tok("+")>>
         \o rendering(expr[3], operands)
         \o <<Tok("-"), <<Num(1)>>, Tok(")"), Tok("/")>>
         \o rendering(expr[3], operands) \o <<Tok(")")>>
    [] OTHER ->
       <<Tok("(")>> \o rendering(expr[2], operands)
         \o <<Tok(CASE expr[1] = "Add" -> "+"
                    [] expr[1] = "Mul" -> "*"
                    [] expr[1] = "Mod" -> "%"
                    [] expr[1] = "FloorDiv" -> "/")>>
         \o rendering(expr[3], operands) \o <<Tok(")")>>

\* the least element of a set of numbers
least(S) == CHOOSE x \in S : \A y \in S : x <= y

\* the first nested region kernel r emitted, and the lexemes of the line that
\* opens it: from the first `if` of the kernel's text to the first brace
hasIf(r) == \E i \in Range(r.stmts) : Nodes[i].kind = "If"

firstIf(r) == Nodes[least({i \in Range(r.stmts) : Nodes[i].kind = "If"})]

opening(text) ==
  LET p == least({i \in 1..Len(text) : text[i] = Lit("if (")})
      q == least({i \in p..Len(text) : Lit("{") \in Range(Lexemes(text[i][2]).atoms)})
  IN  SubSeq(text, p, q)

constraint(n, k) ==
  rendering(n.exprs[k], n.ops)
    \o <<Tok(IF n.eqs[k] THEN "==" ELSE ">="), <<Num(0)>>>>

\* the constraints from the k-th on, with && between them
RECURSIVE conjunction(_, _)
conjunction(n, k) ==
  IF k > Len(n.exprs) THEN <<>>
  ELSE constraint(n, k)
         \o (IF k < Len(n.exprs) THEN <<Tok("&&")>> ELSE <<>>)
         \o conjunction(n, k + 1)

\* the constraints from the k-th on, with && after each
RECURSIVE conjuncts(_, _)
conjuncts(n, k) ==
  IF k > Len(n.exprs) THEN <<>>
  ELSE constraint(n, k) \o <<Tok("&&")>> \o conjuncts(n, k + 1)

textOf(r) == SubSeq(source, r.from, r.to)

\* C10 as claimed: the line that opens a nested region is `if (`, the
\* constraints in order, each as `expr == 0` or `expr >= 0`, with && between
\* them, and `) {`
C10_Conjunction ==
  \A j \in 1..Len(kernels) :
    hasIf(kernels[j]) =>
      lexemes(opening(textOf(kernels[j]))) =
        <<Tok("if"), Tok("(")>> \o conjunction(firstIf(kernels[j]), 1)
          \o <<Tok(")"), Tok("{")>>

\* C10 as amended: the line is `if (`, the constraints in order, each as
\* `expr == 0 &&` or `expr >= 0 &&`, then `true) {`
C10_ConjunctionAndTrue ==
  \A j \in 1..Len(kernels) :
    hasIf(kernels[j]) =>
      lexemes(opening(textOf(kernels[j]))) =
        <<Tok("if"), Tok("(")>> \o conjuncts(firstIf(kernels[j]), 1)
          \o <<Tok("true"), Tok(")"), Tok("{")>>

\* a kernel with a nested region under [i - 2 == 0, j >= 0], i the thread
\* and j the block, was generated with the line
\* `if ((threadIdx.x + -2) == 0 && blockIdx.x >= 0 &&  true) {`
C10_Witness ==
  \E j \in 1..Len(kernels) :
    /\ hasIf(kernels[j])
    /\ firstIf(kernels[j]).exprs =
         <<<<"Add", <<"Dim", 0>>, <<"Const", -2>>>>, <<"Dim", 1>>>>
    /\ firstIf(kernels[j]).eqs = <<TRUE, FALSE>>
    /\ lexemes(opening(textOf(kernels[j]))) =
         <<Tok("if"), Tok("("), Tok("("), <<Lit("threadIdx."), Lit("x")>>,
           Tok("+"), <<Num(-2)>>, Tok(")"), Tok("=="), <<Num(0)>>, Tok("&&"),
           <<Lit("blockIdx."), Lit("x")>>, Tok(">="), <<Num(0)>>, Tok("&&"),
           Tok("true"), Tok(")"), Tok("{")>>

(***************************************************************************)
(* The arithmetic of the generated text                                    *)
(***************************************************************************)
IntMin == -IntMax - 1

\* int arithmetic: the value two's complement gives, and whether the
\* operation is undefined (signed overflow, division by zero)
Add32(x, y) ==
  IF y > 0 /\ x > IntMax - y
  THEN [v |-> ((x - IntMax) + (y - IntMax)) - 2, ub |-> TRUE]
  ELSE IF y < 0 /\ x < IntMin - y
  THEN [v |-> ((x + IntMax) + (y + IntMax)) + 2, ub |-> TRUE]
  ELSE [v |-> x + y, ub |-> FALSE]

Sub32(x, y) ==
  IF y < 0 /\ x > IntMax + y
  THEN [v |-> ((x - IntMax) - (y + IntMax)) - 2, ub |-> TRUE]
  ELSE IF y > 0 /\ x < IntMin + y
  THEN [v |-> ((x + IntMax) - (y - IntMax)) + 2, ub |-> TRUE]
  ELSE [v |-> x - y, ub |-> FALSE]

Mul32(x, y) ==
  [v |-> MulInt(x, y),
   ub |-> /\ x # 0 /\ y # 0
          /\ \/ (x = -1 /\ y = IntMin) \/ (y = -1 /\ x = IntMin)
             \/ (x # -1 /\ y # -1 /\ CDiv(MulInt(x, y), y) # x)]

Div32(x, y) ==
  IF y = 0 \/ (x = IntMin /\ y = -1) THEN [v |-> 0, ub |-> TRUE]
  ELSE [v |-> CDiv(x, y), ub |-> FALSE]

Mod32(x, y) ==
  IF y = 0 \/ (x = IntMin /\ y = -1) THEN [v |-> 0, ub |-> TRUE]
  ELSE [v |-> x - CDiv(x, y) * y, ub |-> FALSE]

\* the result of operator op on the results l and r, read up to r.i
binop(op, l, r) ==
  LET x == CASE op = Tok("+") -> Add32(l.v, r.v)
             [] op = Tok("-") -> Sub32(l.v, r.v)
             [] op = Tok("*") -> Mul32(l.v, r.v)
             [] op = Tok("/") -> Div32(l.v, r.v)
             [] op = Tok("%") -> Mod32(l.v, r.v)
  IN  [v |-> x.v, ub |-> l.ub \/ r.ub \/ x.ub, i |-> r.i]

after(r) == [r EXCEPT !.i = @ + 1]

\* the value of the int expression that starts at lexeme i of T, the
\* variables having the values env: sums of products of numbers, variables
\* and parenthesised expressions, left to right
RECURSIVE sum(_, _, _)
RECURSIVE sumRest(_, _, _)
RECURSIVE term(_, _, _)
RECURSIVE termRest(_, _, _)
RECURSIVE factor(_, _, _)
factor(T, env, i) ==
  IF T[i] = Tok("(") THEN after(sum(T, env, i + 1))
  ELSE IF T[i] = Tok("-")
  THEN binop(Tok("-"), [v |-> 0, ub |-> FALSE, i |-> i],
             factor(T, env, i + 1))
  ELSE IF Len(T[i]) = 1 /\ T[i][1][1] = "n"
  THEN [v |-> T[i][1][3], ub |-> FALSE, i |-> i + 1]
  ELSE [v |-> env[T[i]], ub |-> FALSE, i |-> i + 1]

termRest(T, env, l) ==
  IF l.i <= Len(T) /\ T[l.i] \in {Tok("*"), Tok("/"), Tok("%")}
  THEN termRest(T, env, binop(T[l.i], l, factor(T, env, l.i + 1)))
  ELSE l

term(T, env, i) == termRest(T, env, factor(T, env, i))

sumRest(T, env, l) ==
  IF l.i <= Len(T) /\ T[l.i] \in {Tok("+"), Tok("-")}
  THEN sumRest(T, env, binop(T[l.i], l, term(T, env, l.i + 1)))
  ELSE l

sum(T, env, i) == sumRest(T, env, term(T, env, i))

\* what a run of the text can give where the result is x: its value, or,
\* where an operation was undefined, the wrapped value or a trap
outcomes(x) ==
  {[trap |-> FALSE, v |-> x.v]}
    \cup (IF x.ub THEN {[trap |-> TRUE, v |-> 0]} ELSE {})

\* the lexemes between `int name =` and the `;` of the line that declares
\* the variable `name` in a text
initialiser(text, name) ==
  LET p == least({i \in 1..Len(text) :
                    /\ text[i] = Lit("int ")
                    /\ SubSeq(text, i + 1, i + Len(name)) = name
                    /\ text[i + Len(name) + 1] = Lit(" = ")})
      q == least({i \in p..Len(text) : text[i] = Lit(";\n")})
  IN  lexemes(SubSeq(text, p + Len(name) + 2, q - 1))

\* the applies of kernel r that the generated text computes in a loop
appliesOf(r) ==
  {i \in Range(r.stmts) :
     /\ Nodes[i].kind = "Apply"
     /\ Nodes[Nodes[i].parent].kind = "For"
     /\ Nodes[i].ops = Nodes[Nodes[i].parent].ivs}

computed(a, n, x) ==
  calc' = <<[a |-> a, expr |-> n.exprs[1], out |-> x]>>

\* the first turn of the loop around an apply of a returned kernel: the
\* value the generated line gives the apply's variable
Evaluate ==
  /\ pc = "idle"
  /\ ret # <<>>
  /\ calc = <<>>
  /\ \E j \in 1..Len(kernels) : \E i \in appliesOf(kernels[j]) :
       \E x \in outcomes(sum(initialiser(textOf(kernels[j]),
                                         valueNameMap[Nodes[i].res]),
                             valueNameMap[Nodes[i].ops[1]]
                               :> Nodes[Nodes[i].parent].lb,
                             1)) :
         computed(Nodes[Nodes[i].parent].lb, Nodes[i], x)
  /\ UNCHANGED <<module, build, pc, source, errs, valueNameMap, kernelCounter,
                 varCounter, kernel, pass, pos, local, outsidesVars,
                 outsideVars, kernels, calls, ret, given>>

NextCeil ==
  \/ Next
  \/ Evaluate

\* the largest distance of a dividend from 0 and from the largest int, and
\* the largest divisor
MaxA == 5
MaxB == 4

Dividends == (0..MaxA) \cup {(IntMax - 1) - d : d \in 0..MaxA}

\* a load and, in a loop of one turn at a, an apply of a ceildiv b
CeilModules ==
  {moduleOf(
     <<kernelOp(1, <<>>,
         <<access("AffineLoad", 110, M1, Tid(1), 0),
           forRange(120, a, a + 1,
             <<Leaf([N0 EXCEPT
                       !.kind = "Apply", !.res = 130, !.ops = <<120>>,
                       !.exprs = <<<<"CeilDiv", <<"Dim", 0>>,
                                     <<"Const", b>>>>>>])>>)>>)>>,
     GlobalTypes) :
     a \in Dividends, b \in 1..MaxB}

InitCeil == InitWith(CeilModules \cup {Everything}, 1)

SpecCeilDiv == InitCeil /\ [][NextCeil]_vars

\* the ceiling of a / b for a >= 0 and b > 0
ceil(a, b) == (a \div b) + (IF a % b = 0 THEN 0 ELSE 1)

\* the computed value is that of CeilDiv(a, b), a variable over a constant
ofCeilDiv(c) ==
  /\ c.expr[1] = "CeilDiv" /\ c.expr[2][1] = "Dim" /\ c.expr[3][1] = "Const"
  /\ c.a >= 0 /\ c.expr[3][2] > 0

\* C8 as claimed: for every a >= 0 and b > 0 the text rendered for
\* CeilDiv(a, b) evaluates, in int arithmetic, to the ceiling of a / b
C8_CeilDivEvaluates ==
  \A k \in 1..Len(calc) :
    ofCeilDiv(calc[k]) =>
      calc[k].out = [trap |-> FALSE, v |-> ceil(calc[k].a, calc[k].expr[3][2])]

\* C8 as amended: it does for every a >= 0 and b > 0 whose sum a + b is at
\* most the largest int
C8_CeilDivEvaluatesInRange ==
  \A k \in 1..Len(calc) :
    ofCeilDiv(calc[k]) /\ calc[k].a <= IntMax - calc[k].expr[3][2] =>
      calc[k].out = [trap |-> FALSE, v |-> ceil(calc[k].a, calc[k].expr[3][2])]

\* 5 ceildiv 3 was rendered and evaluated to 2
C8_Witness ==
  \E k \in 1..Len(calc) :
    /\ ofCeilDiv(calc[k])
    /\ calc[k].a = 5 /\ calc[k].expr[3][2] = 3
    /\ calc[k].out = [trap |-> FALSE, v |-> 2]


(***************************************************************************)
(* C11: the symbol table over a whole run                                  *)
(***************************************************************************)
\* the kernels of the module: the AffineParallelOps directly in a function
topLevel ==
  {k \in 1..Len(Nodes) :
     /\ Nodes[k].kind = "Parallel"
     /\ Nodes[k].parent # 0
     /\ Nodes[Nodes[k].parent].kind = "Func"}

\* the values the operations of S define: results and induction variables
definedBy(S) ==
  {Nodes[i].res : i \in {j \in S : Nodes[j].res # 0}}
    \cup UNION {Range(Nodes[i].ivs) : i \in S}

\* the kernels that define v (none for a value of function level)
kernelsOf(v) == {k \in topLevel : v \in definedBy(Under(k))}

\* the induction variables of the parallel regions
parallelIVs ==
  UNION {Range(Nodes[i].ivs) :
           i \in {j \in 1..Len(Nodes) : Nodes[j].kind = "Parallel"}}

\* C11 as stated: at every point of a run no two distinct values, of one
\* kernel or of two, are bound to the same generated name
C11_NamesInjective ==
  \A v, w \in DOMAIN valueNameMap :
    v # w => valueNameMap[v] # valueNameMap[w]

\* C11 as the code has it: two distinct values bear the same name only when
\* both are induction variables of parallel regions (blockIdx, threadIdx) or
\* when they are defined in different kernels, whose naming passes restart
\* the counters of collectVars; the argN names are never repeated
C11_NamesInjectivePerKernel ==
  \A v, w \in DOMAIN valueNameMap :
    v # w /\ valueNameMap[v] = valueNameMap[w] =>
      \/ {v, w} \subseteq parallelIVs
      \/ /\ kernelsOf(v) # {} /\ kernelsOf(w) # {}
         /\ kernelsOf(v) \cap kernelsOf(w) = {}
         /\ valueNameMap[v][1] # Lit("arg")

\* two kernels have named their first loaded scalar R0, and the two memrefs
\* they were loaded from have different argN names
C11_Witness ==
  /\ \E v, w \in DOMAIN valueNameMap :
       /\ kernelsOf(v) # {} /\ kernelsOf(w) # {}
       /\ kernelsOf(v) # kernelsOf(w)
       /\ valueNameMap[v] = <<Lit("R"), Num(0)>>
       /\ valueNameMap[w] = <<Lit("R"), Num(0)>>
  /\ \E v, w \in DOMAIN valueNameMap :
       /\ v # w
       /\ valueNameMap[v][1] = Lit("arg")
       /\ valueNameMap[w][1] = Lit("arg")

(***************************************************************************)
(* C12: one caller, several calls of CUDAGen                               *)
(***************************************************************************)
\* how many calls the caller makes
MaxRuns == 3

\* the modules the caller has: every kernel of theirs captures a memref
RunModules ==
  {Everything, TwoRegions,
   moduleOf(<<kernelOp(1, <<>>, <<access("AffineLoad", 110, M2, Tid(1), 0)>>)>>,
            GlobalTypes),
   moduleOf(<<kernelOp(1, <<>>, <<access("AffineLoad", 110, M1, Tid(1), 0)>>),
              kernelOp(2, <<>>, <<access("VectorLoad", 210, M2, Tid(2), 0),
                                  access("AffineStore", 0, M3, Tid(2), 210)>>)>>,
            GlobalTypes)}

\* between two calls the caller takes another module
Reload ==
  /\ pc = "idle"
  /\ calls > 0
  /\ ret # <<>>
  /\ module' \in RunModules
  /\ UNCHANGED <<build, pc, source, errs, valueNameMap, kernelCounter,
                 varCounter, kernel, pass, pos, local, outsidesVars,
                 outsideVars, kernels, calls, ret, calc, given>>

NextRuns == Next \/ Reload

InitRuns == InitWith(RunModules, MaxRuns)

SpecRuns == InitRuns /\ [][NextRuns]_vars

\* C12: generation is deterministic and independent of the calls before:
\* whatever calls of CUDAGen came earlier, on the same module or on others,
\* a call on a module returns the text the first call on that module returned
C12_HistoryIndependent ==
  \A i, j \in 1..Len(ret) : given[i] = given[j] => ret[i] = ret[j]

\* three calls have returned, the first and the third on the same module,
\* the second on another one that gave another text
C12_Witness ==
  /\ Len(ret) = 3
  /\ given[1] = given[3]
  /\ given[2] # given[1]
  /\ ret[2] # ret[1]
  /\ Len(ret[3]) > 1

(***************************************************************************)
(* C13: the names of the kernels                                           *)
(***************************************************************************)
\* where the prototypes of the text begin
prototypes ==
  {i \in 1..Len(source) : source[i] = Lit("__global__ void ")}

\* C13: in one run the kernels are named kernel0, kernel1, ... in the order
\* they are emitted: the k-th prototype of the text names kernel(k-1), so no
\* name is used twice
C13_KernelsNumberedInOrder ==
  \A i \in prototypes :
    /\ i + 2 <= Len(source)
    /\ source[i + 1] = Lit("kernel")
    /\ source[i + 2] = Num(Cardinality({j \in prototypes : j < i}))

\* the text has two prototypes, and the second names kernel1
C13_Witness ==
  /\ Cardinality(prototypes) = 2
  /\ \E i \in prototypes : source[i + 2] = Num(1)
  /\ Len(kernels) = 2

(***************************************************************************)
(* C14: the layout of the returned text                                    *)
(***************************************************************************)
\* the line CUDAGen writes first
includeLine == Lit("#include \"cuda_runtime.h\"\n")

\* the k-th kernel of the module in declaration order: functions in module
\* order, regions in function order
nthKernel(k) ==
  CHOOSE i \in topLevel : Cardinality({j \in topLevel : j < i}) = k - 1

\* the text of kernel j is one definition: the comment, one prototype and
\* the body to its closing brace
oneDefinition(j) ==
  /\ kernels[j].from + 3 <= kernels[j].to
  /\ source[kernels[j].from] = Lit("// grid dims:(")
  /\ source[kernels[j].to] = Lit("}\n")
  /\ Cardinality(prototypes \cap (kernels[j].from..kernels[j].to)) = 1

\* C14: the text begins with the one include line, written before any
\* kernel, and the text CUDAGen returns is that line followed by one kernel
\* definition for each parallel region directly in a function, in
\* declaration order, none left out, repeated or moved
C14_IncludeThenKernelsInOrder ==
  /\ source # <<>> =>
       /\ source[1] = includeLine
       /\ \A i \in 2..Len(source) : source[i] # includeLine
  /\ source = <<>> => kernels = <<>>
  /\ \A j \in 1..Len(kernels) :
       /\ kernels[j].node = nthKernel(j)
       /\ kernels[j].from = IF j = 1 THEN 2 ELSE kernels[j - 1].to + 1
       /\ oneDefinition(j)
  /\ pc = "idle" /\ ret # <<>> =>
       /\ ret[Len(ret)] = source
       /\ Len(kernels) = Cardinality(topLevel)
       /\ Len(source) = IF kernels = <<>> THEN 1
                        ELSE kernels[Len(kernels)].to

\* CUDAGen has returned the text of a module of two functions: three kernel
\* definitions, the third for the kernel of the second function
C14_Witness ==
  /\ pc = "idle" /\ ret # <<>>
  /\ Cardinality({i \in 1..Len(Nodes) : Nodes[i].kind = "Func"}) = 2
  /\ Len(kernels) = 3
  /\ Nodes[kernels[3].node].parent # Nodes[kernels[1].node].parent

(***************************************************************************)
(* C15: a kernel that captures nothing                                     *)
(***************************************************************************)
\* C15: when the naming pass of a kernel has captured no value, the
\* generation fails before any part of that kernel (comment, prototype or
\* body) is appended to the text
C15_NoCaptureFailsFirst ==
  [][pc = "emit" /\ outsideVars = <<>> =>
       source' = source /\ pc' = "crashed"]_vars

(***************************************************************************)
(* C16: attributes the generator has no case for                           *)
(***************************************************************************)
\* the predicates of arith.cmpf and the modes of gpu.shuffle the emitters
\* have no case for, and element types of vectors that are not floats
OtherPredicates == {"OLT", "ONE"}
OtherModes == {"UP", "XOR"}
OtherElements == {"i8", "i32"}

\* a thread region with a load and one operation with such an attribute
AttrModules ==
  LET load == access("AffineLoad", 110, M1, Tid(1), 0)
      one(ops) == moduleOf(<<kernelOp(1, <<>>, <<load>> \o ops)>>, GlobalTypes)
  IN  {one(<<scalar("CmpF", 111, <<110, 110>>, p)>>) : p \in OtherPredicates}
      \cup
      {one(<<constant("ConstInt", 111, 1),
             forLoop(112, <<scalar("Shuffle", 113, <<110, 111, 111>>, m)>>)>>) :
         m \in OtherModes}
      \cup
      {one(<<[access(kind, 111, M2, Tid(1), 110)
                EXCEPT !.n.vec = <<4, e>>]>>) :
         kind \in {"VectorLoad", "VectorStore"}, e \in OtherElements}

InitAttr == InitWith(AttrModules \cup {Everything}, 1)

SpecAttr == InitAttr /\ [][Next]_vars

\* the attribute of operation n is one its emitter has no case for
unsupportedAttr(n) ==
  \/ n.kind = "CmpF" /\ n.attr \notin {"OEQ", "OGT"}
  \/ n.kind = "Shuffle" /\ n.attr \notin {"DOWN", "IDX"}
  \/ n.kind \in {"VectorLoad", "VectorStore"}
       /\ n.vec[2] \notin {"f16", "f32", "f64"}

\* C16: an unsupported attribute is fatal: no kernel is generated to its end
\* with a statement for a CmpF of another predicate, a Shuffle of another
\* mode or a vector access of another element width
C16_UnsupportedAttributeFails ==
  \A j \in 1..Len(kernels) :
    \A i \in Range(kernels[j].stmts) : ~unsupportedAttr(Nodes[i])

(***************************************************************************)
(* C17: the kinds emitted in each container                                *)
(***************************************************************************)
\* the kinds that have an emitter
emissionTable == ForKinds \cup IfKinds \cup KernelKinds \cup ThreadKinds

\* C17: in a generated kernel every operation of a kind that has an emitter
\* gives exactly one statement (one block for a container), whichever
\* container holds it: the outer region, the nested thread region, a loop
\* body or an if body
C17_EmittedInEveryContainer ==
  \A j \in 1..Len(kernels) :
    \A i \in Under(kernels[j].node) \ {kernels[j].node} :
      /\ Nodes[i].parent \in {kernels[j].node} \cup Range(kernels[j].stmts)
      /\ Nodes[i].kind \in emissionTable
      => Cardinality({p \in DOMAIN kernels[j].stmts :
                        kernels[j].stmts[p] = i}) = 1

(***************************************************************************)
(* C18: the values a kernel uses and does not define                       *)
(***************************************************************************)
\* the values the operations of S use as operands
usedBy(S) ==
  {Nodes[i].mem : i \in {j \in S : Nodes[j].mem # 0}}
    \cup UNION {Range(Nodes[i].args) \cup Range(Nodes[i].ops) : i \in S}

\* C18: every value an operation of a generated kernel uses and the kernel
\* does not define, memref or not, is a formal parameter of the kernel and
\* has a name
C18_FreeValuesAreParameters ==
  \A j \in 1..Len(kernels) :
    \A v \in usedBy(Under(kernels[j].node))
               \ definedBy(Under(kernels[j].node)) :
      v \in Range(kernels[j].params) /\ v \in DOMAIN valueNameMap

(***************************************************************************)
(* C19: the numbering of the classes R, const and temp                     *)
(***************************************************************************)
\* the kinds whose results share a counter, in the order of their walks
classKinds(cls) ==
  CASE cls = "R" -> <<"AffineLoad", "MemLoad">>
    [] cls = "const" -> <<"ConstIndex", "ConstFloat", "ConstInt">>
    [] cls = "temp" -> <<"MulF", "AddF", "MaxF", "SubF", "DivF", "Exp", "PowF",
                         "CmpF", "Tanh", "Sqrt", "Log", "Bitcast", "Shuffle">>

\* the place of kind k in the order of its class
kindOrder(cls, k) ==
  CHOOSE p \in 1..Len(classKinds(cls)) : classKinds(cls)[p] = k

\* the operations of the kernel whose result has a name of class cls
numbered(cls) ==
  {i \in Under(kernel) :
     /\ Nodes[i].kind \in Range(classKinds(cls))
     /\ Nodes[i].res \in DOMAIN valueNameMap
     /\ valueNameMap[Nodes[i].res][1] = Lit(cls)}

\* the index in the name of the result of operation i
indexOf(i) == valueNameMap[Nodes[i].res][2][3]

\* operation i comes before operation j in kind-major order
kindMajor(cls, i, j) ==
  \/ kindOrder(cls, Nodes[i].kind) < kindOrder(cls, Nodes[j].kind)
  \/ Nodes[i].kind = Nodes[j].kind /\ i < j

\* C19: when the naming pass of a kernel is over, the names of each class
\* (R of the scalar loads, const of the constants, temp of the arithmetic,
\* math, bitcast and shuffle results) bear the indices 0..n-1 without gaps,
\* in kind-major order: by the order of the kinds first, by pre-order
\* position within a kind
C19_KindMajorNumbering ==
  pc = "emit" =>
    \A cls \in {"R", "const", "temp"} :
      /\ {indexOf(i) : i \in numbered(cls)}
           = 0..(Cardinality(numbered(cls)) - 1)
      /\ \A i, j \in numbered(cls) :
           kindMajor(cls, i, j) => indexOf(i) < indexOf(j)

(***************************************************************************)
(* C20: the names of the induction variables of parallel regions           *)
(***************************************************************************)
\* the most induction variables a parallel region has: int3str has a
\* component for each
MaxIVs == 3

\* a parallel region with m induction variables, the first of them r + 1
parallelOf(r, m, body) ==
  Box([N0 EXCEPT !.kind = "Parallel",
                 !.ivs = [i \in 1..m |-> r + i],
                 !.dims = [i \in 1..m |-> i + 1]],
      body \o <<Yield>>)

\* the kernels of m induction variables with two thread regions, of n and
\* of m induction variables
ParallelModules ==
  {moduleOf(
     <<parallelOf(140, m,
         <<parallelOf(150, n, <<access("AffineLoad", 160, M1, 150 + n, 0)>>),
           parallelOf(170, m, <<access("AffineStore", 0, M2, 171, 160)>>)>>)>>,
     GlobalTypes) : m, n \in 1..MaxIVs}

InitParallel == InitWith(ParallelModules \cup {Everything}, 1)

SpecParallel == InitParallel /\ [][Next]_vars

\* the component of the induction variable that has d variables after it
component(d) ==
  CASE d = 0 -> "x"
    [] d = 1 -> "y"
    [] d = 2 -> "z"

\* C20: after the naming pass the induction variables of the kernel's own
\* parallel region are named blockIdx.{z,y,x} and those of every nested
\* parallel region threadIdx.{z,y,x}, by reverse position: of m variables
\* (1 <= m <= 3) the one at position i gets x, y or z for m-1-i = 0, 1 or
\* 2, the last one x
C20_ReversePosition ==
  pc \in {"emit", "func"} /\ kernel # 0 =>
    \A p \in {q \in Under(kernel) : Nodes[q].kind = "Parallel"} :
      LET m == Len(Nodes[p].ivs)
      IN  \A i \in 0..(m - 1) :
            valueNameMap[Nodes[p].ivs[i + 1]]
              = <<Lit(IF p = kernel THEN "blockIdx." ELSE "threadIdx."),
                  Lit(component(m - 1 - i))>>

\* a kernel of three induction variables with a thread region of two has
\* been named: blockIdx.z, blockIdx.y, blockIdx.x and threadIdx.y,
\* threadIdx.x
C20_Witness ==
  /\ pc = "emit"
  /\ Len(Nodes[kernel].ivs) = 3
  /\ valueNameMap[141] = <<Lit("blockIdx."), Lit("z")>>
  /\ valueNameMap[142] = <<Lit("blockIdx."), Lit("y")>>
  /\ valueNameMap[143] = <<Lit("blockIdx."), Lit("x")>>
  /\ 152 \in DOMAIN valueNameMap /\ 153 \notin DOMAIN valueNameMap
  /\ valueNameMap[151] = <<Lit("threadIdx."), Lit("y")>>
  /\ valueNameMap[152] = <<Lit("threadIdx."), Lit("x")>>

(***************************************************************************)
(* C21: memrefs allocated in the kernel                                    *)
(***************************************************************************)
\* the memory spaces of an allocation in a kernel
AllocSpaces == {"shared", "local"}

\* the kernels with a load from a memref defined outside, an allocation in
\* the outer region or in the thread region, and one load or store of each
\* kind that uses the allocated memref
AllocModules ==
  LET alloc == Leaf([N0 EXCEPT !.kind = "Alloc", !.res = 110])
      load == access("AffineLoad", 111, M1, Tid(1), 0)
  IN  {moduleOf(
         <<kernelOp(1,
             IF outer THEN <<alloc>> ELSE <<>>,
             <<load>> \o (IF outer THEN <<>> ELSE <<alloc>>)
               \o <<access(kind, 112, 110, Tid(1), 111)>>)>>,
         (110 :> MemRefType("f32", <<8>>, space)) @@ GlobalTypes) :
       outer \in BOOLEAN, kind \in Loads \cup Stores, space \in AllocSpaces}

InitAlloc == InitWith(AllocModules \cup {Everything}, 1)

SpecAlloc == InitAlloc /\ [][Next]_vars

\* the memrefs the Alloc operations of the module's kernels produce
allocated == UNION {allocatedIn(k) : k \in topLevel}

\* C21: a memref an Alloc of a kernel produces is never captured as a free
\* variable: whatever loads and stores use it, it never gets an argN name
\* and is never among the formal parameters of a kernel
C21_AllocNeverCaptured ==
  \A v \in allocated :
    /\ v \notin DOMAIN outsidesVars
    /\ v \notin Range(outsideVars)
    /\ v \in DOMAIN valueNameMap => valueNameMap[v][1] # Lit("arg")
    /\ \A j \in 1..Len(kernels) : v \notin Range(kernels[j].params)

\* a kernel was generated whose vector store writes to the array its Alloc
\* produced: the array is array0, the only parameter is the memref loaded
\* from
C21_Witness ==
  /\ Len(kernels) = 1
  /\ kernels[1].params = <<M1>>
  /\ \E i \in Range(kernels[1].stmts) :
       /\ Nodes[i].kind = "VectorStore"
       /\ Nodes[i].mem \in allocatedIn(kernels[1].node)
       /\ valueNameMap[Nodes[i].mem] = <<Lit("array"), Num(0)>>
====
